---- MODULE Spec2Model ----
(***************************************************************************)
(* Model of notebooks/tutorials/visualization.ipynb: a notebook whose code *)
(* cells load a CT volume, build a DRR renderer, extract an isosurface     *)
(* mesh, build camera/detector meshes for a pose, add them to a PyVista    *)
(* plotter and export the scene to render.html.                            *)
(*                                                                         *)
(* The notebook runs in a Python kernel: the namespace `ns` and the file   *)
(* on disk survive from one "run all" to the next; every statement is one  *)
(* action, executed in the order the cells list them; a statement whose    *)
(* call raises stops the run (no cell holds a try/except).                 *)
(*                                                                         *)
(* Library calls are modelled as functions of their arguments: the value   *)
(* they return is a record of what went into it.  Whether a call returns   *)
(* or raises is a nondeterministic choice.  Geometry is kept to the three  *)
(* integer coordinates of a point.                                         *)
(***************************************************************************)
EXTENDS Integers, Sequences, FiniteSets, TLC

VARIABLES
    status,     \* "idle" | "running" | "done" | "failed"
    pc,         \* notebook line of the statement to execute (or that raised)
    run,        \* number of "run all" executions started in this kernel
    params,     \* the literals of this run: backend name (line 93), shift of the translation (line 97)
    cuda,       \* torch.cuda.is_available() of the machine
    ns,         \* the kernel namespace: name -> value
    disk,       \* content of render.html, None when absent
    created,    \* number of times this run created render.html
    raised,     \* the exception the failing call raised, None when none
    surfaced,   \* the exception the caller of the run received, None when none
    steps,      \* the named steps this run completed, in order
    execCount,  \* line -> number of times this run executed the statement
    assigns,    \* name -> number of assignments in this run
    readers,    \* name -> lines of the statements that read it in this run
    prev        \* what the last completed run before this one produced

vars == <<status, pc, run, params, cuda, ns, disk, created, raised, surfaced,
          steps, execCount, assigns, readers, prev>>

\* Bounds of the model.
MaxRuns == 2
MaxDx == 1
MaxExec == 2

\* Python values are records with a tag; None is the value of an unbound name.
None == [tag |-> "None"]

Float(x) == [tag |-> "float", v |-> x]

Device(type) == [tag |-> "device", type |-> type]

\* The literals of the code cells.
focal_len == 1020
height == 200
delx == 2
threshold == 1150

\* The backends the notebook documents (doc cell), and the names a run may pass.
SupportedBackends == {"marching_cubes", "surface_nets"}

BackendNames == SupportedBackends \cup {"flying_edges"}

\* Faulty orders of the statements: the export before the detector is added,
\* img_to_mesh before drr_to_mesh, drr_to_mesh after the pose conversion.
Lines_ExportBeforeDetector ==
    <<55, 66, 73, 76, 77, 78, 81, 82, 93, 96, 97, 98, 99,
      102, 103, 104, 105, 114, 106, 109, 110, 147>>

Lines_RenderBeforeMesh ==
    <<55, 66, 73, 76, 77, 78, 81, 82, 96, 97, 98, 99, 93,
      102, 103, 104, 105, 106, 109, 110, 114, 147>>

Lines_MeshAfterPose ==
    <<55, 66, 73, 76, 77, 78, 81, 82, 96, 97, 98, 93, 99,
      102, 103, 104, 105, 106, 109, 110, 114, 147>>

\* The statements of the code cells, by notebook line, in execution order.
Lines ==
    <<55, 66, 73, 76, 77, 78, 81, 82, 93, 96, 97, 98, 99,
      102, 103, 104, 105, 106, 109, 110, 114, 147>>

LineSet == {Lines[i] : i \in 1..Len(Lines)}

IndexOf(l) == CHOOSE i \in 1..Len(Lines) : Lines[i] = l

IsLast(l) == IndexOf(l) = Len(Lines)

NextLine(l) == IF IsLast(l) THEN l ELSE Lines[IndexOf(l) + 1]

\* The names the code cells bind.
Names == {"device", "volume", "spacing", "bx", "by", "bz", "focal_len", "drr",
          "ct", "rotations", "translations", "pose", "camera", "detector",
          "texture", "principal_ray", "plotter"}

\* The names the "write-once, read-once" sentence of the data model lists.
ObjectNames == {"volume", "spacing", "device", "drr", "ct", "pose", "camera",
                "detector", "texture", "principal_ray", "plotter"}

(***************************************************************************)
(* The collaborators, as functions of their arguments.                     *)
(***************************************************************************)

\* diffdrr.data.load_example_ct(): the example volume and its voxel spacing.
load_example_ct ==
    [volume  |-> [tag |-> "volume", shape |-> <<4, 4, 2>>],
     spacing |-> [tag |-> "tuple", v |-> <<2, 2, 3>>]]

\* torch.tensor(volume.shape) * torch.tensor(spacing) / 2, component i.
Isocenter(volume, spacing, i) == Float((volume.shape[i] * spacing.v[i]) \div 2)

\* torch.device("cuda" if torch.cuda.is_available() else "cpu")
torch_device(available) == Device(IF available THEN "cuda" ELSE "cpu")

\* torch.tensor(data, device=device)
torch_tensor(data, dev) == [tag |-> "tensor", data |-> data, device |-> dev]

\* DRR(volume, spacing, sdr=..., height=..., delx=...).to(device)
DRR(volume, spacing, sdr, h, dx, dev) ==
    [tag |-> "DRR", volume |-> volume, spacing |-> spacing, sdr |-> sdr,
     height |-> h, delx |-> dx, device |-> dev]

\* diffdrr.visualization.drr_to_mesh(drr, method, threshold=..., verbose=False)
drr_to_mesh(drr, method, thr) ==
    [tag |-> "mesh", kind |-> "isosurface", volume |-> drr.volume,
     spacing |-> drr.spacing, method |-> method, threshold |-> thr,
     origin |-> <<0, 0, 0>>]

\* diffdrr.pose.convert(rotations, translations, parameterization=..., convention=...)
convert(rot, xyz, parameterization, convention) ==
    [tag |-> "pose", rotation |-> rot.data, translation |-> xyz.data,
     device |-> xyz.device, parameterization |-> parameterization,
     convention |-> convention]

\* The X-ray source and the detector centre of a pose: sdr on either side of
\* the translation, along the first axis.
Source(drr, pose) ==
    <<pose.translation[1] + drr.sdr, pose.translation[2], pose.translation[3]>>

Target(drr, pose) ==
    <<pose.translation[1] - drr.sdr, pose.translation[2], pose.translation[3]>>

\* diffdrr.visualization.img_to_mesh(drr, pose): camera frustum, detector
\* plane, the rendered projection as a texture, and the principal ray.
img_to_mesh(drr, pose) ==
    [camera        |-> [tag |-> "mesh", kind |-> "camera",
                        apex |-> Source(drr, pose), base |-> Target(drr, pose)],
     detector      |-> [tag |-> "mesh", kind |-> "detector",
                        center |-> Target(drr, pose),
                        height |-> drr.height, delx |-> drr.delx],
     texture       |-> [tag |-> "texture", volume |-> drr.volume,
                        translation |-> pose.translation,
                        rotation |-> pose.rotation, device |-> drr.device],
     principal_ray |-> [tag |-> "mesh", kind |-> "ray",
                        from |-> Source(drr, pose), to |-> Target(drr, pose)]]

\* pyvista.Plotter()
Plotter == [tag |-> "plotter", actors |-> <<>>, axes |-> FALSE,
            bounding_box |-> FALSE]

\* plotter.add_mesh(mesh, texture=texture, ...)
add_mesh(plotter, mesh, tex) ==
    [plotter EXCEPT !.actors = Append(@, [mesh |-> mesh, texture |-> tex])]

\* plotter.add_axes()
add_axes(plotter) == [plotter EXCEPT !.axes = TRUE]

\* plotter.add_bounding_box()
add_bounding_box(plotter) == [plotter EXCEPT !.bounding_box = TRUE]

\* plotter.export_html(path): the serialized scene.
export_html(plotter) ==
    [tag |-> "html", actors |-> plotter.actors, axes |-> plotter.axes,
     bounding_box |-> plotter.bounding_box, complete |-> TRUE]

\* What an interrupted write leaves behind.
PartialFile == [tag |-> "html", actors |-> <<>>, axes |-> FALSE,
                bounding_box |-> FALSE, complete |-> FALSE]

Textures(file) == {i \in 1..Len(file.actors) : file.actors[i].texture # None}

\* Size of the exported file: one unit per serialized actor, texture, widget.
ByteSize(file) ==
    Len(file.actors) + Cardinality(Textures(file))
      + (IF file.axes THEN 1 ELSE 0) + (IF file.bounding_box THEN 1 ELSE 0)

(***************************************************************************)
(* Running a statement.                                                    *)
(***************************************************************************)

At(l) == status = "running" /\ pc = l

\* The statement at line l finished in this run.
Completed(l) ==
    /\ status # "idle"
    /\ execCount[l] > 0
    /\ ~(status \in {"running", "failed"} /\ pc = l)

Error(l, callee) == [tag |-> "error", line |-> l, callee |-> callee]

\* No cell wraps a call in try/except: what the call raises is what the
\* caller of the run receives.
\* (Faulty variant: a handler that re-raises an exception of its own.)
Uncaught_Translated(e) == [e EXCEPT !.callee = "notebook"]

Uncaught(e) == e

\* An exception ends the execution of the cell and of the run.
\* (Faulty variant: the statement is tried again.)
AfterRaise_Retry == "running"

AfterRaise == "failed"

\* One more execution of line l, counted up to MaxExec.
Executed(l) ==
    [execCount EXCEPT ![l] = IF @ < MaxExec THEN @ + 1 ELSE @]

Count(old, wr) == [n \in Names |-> old[n] + (IF n \in wr THEN 1 ELSE 0)]

Read(old, rd, l) == [n \in Names |-> IF n \in rd THEN old[n] \cup {l} ELSE old[n]]

\* The statement at line l reads rd, binds wr so that the namespace becomes
\* ns2, and completes the named step (if any); the file is left to the caller.
Complete(l, rd, wr, ns2, step) ==
    /\ ns' = ns2
    /\ status' = IF IsLast(l) THEN "done" ELSE "running"
    /\ pc' = NextLine(l)
    /\ execCount' = Executed(l)
    /\ assigns' = Count(assigns, wr)
    /\ readers' = Read(readers, rd, l)
    /\ steps' = IF step = "" THEN steps ELSE Append(steps, step)
    /\ UNCHANGED <<run, params, cuda, raised, surfaced, prev>>

Return(l, rd, wr, ns2, step) ==
    /\ Complete(l, rd, wr, ns2, step)
    /\ UNCHANGED <<disk, created>>

\* The call of the statement at line l raises, after its arguments were read.
Abort(l, rd, callee) ==
    /\ status' = AfterRaise
    /\ pc' = l
    /\ raised' = Error(l, callee)
    /\ surfaced' = Uncaught(Error(l, callee))
    /\ execCount' = Executed(l)
    /\ readers' = Read(readers, rd, l)
    /\ UNCHANGED <<run, params, cuda, ns, assigns, steps, prev>>

Raise(l, rd, callee) ==
    /\ Abort(l, rd, callee)
    /\ UNCHANGED <<disk, created>>

(***************************************************************************)
(* The kernel.                                                             *)
(***************************************************************************)

Init ==
    /\ status = "idle"
    /\ pc = Lines[1]
    /\ run = 0
    /\ params = [backend |-> "surface_nets", dx |-> 0]
    /\ cuda \in BOOLEAN
    /\ ns = [n \in Names |-> None]
    /\ disk = None
    /\ created = 0
    /\ raised = None
    /\ surfaced = None
    /\ steps = <<>>
    /\ execCount = [l \in LineSet |-> 0]
    /\ assigns = [n \in Names |-> 0]
    /\ readers = [n \in Names |-> {}]
    /\ prev = None

\* What a completed run leaves for comparison with the next one.
Snapshot ==
    [tag |-> "run", params |-> params, ct |-> ns.ct, detector |-> ns.detector,
     size |-> ByteSize(disk)]

\* "Run all": the cells are executed from the top, in the running kernel,
\* with the literals of lines 93 and 97 as they stand at that moment.
RunAll ==
    /\ status \in {"idle", "done", "failed"}
    /\ run < MaxRuns
    /\ run' = run + 1
    /\ \E b \in BackendNames, d \in 0..MaxDx : params' = [backend |-> b, dx |-> d]
    /\ prev' = IF status = "done" THEN Snapshot ELSE prev
    /\ status' = "running"
    /\ pc' = Lines[1]
    /\ created' = 0
    /\ raised' = None
    /\ surfaced' = None
    /\ steps' = <<>>
    /\ execCount' = [l \in LineSet |-> 0]
    /\ assigns' = [n \in Names |-> 0]
    /\ readers' = [n \in Names |-> {}]
    /\ UNCHANGED <<cuda, ns, disk>>

(***************************************************************************)
(* The statements of the code cells.                                       *)
(***************************************************************************)

\* import pyvista
ImportPyvista ==
    /\ At(55)
    /\ \/ Return(55, {}, {}, ns, "")
       \/ Raise(55, {}, "import")

\* import torch; from diffdrr... import ...
ImportDiffDRR ==
    /\ At(66)
    /\ \/ Return(66, {}, {}, ns, "")
       \/ Raise(66, {}, "import")

\* device = torch.device("cuda" if torch.cuda.is_available() else "cpu")
SetDevice ==
    /\ At(73)
    /\ Return(73, {}, {"device"}, [ns EXCEPT !.device = torch_device(cuda)], "")

\* volume, spacing = load_example_ct()
LoadVolume ==
    /\ At(76)
    /\ \/ Return(76, {}, {"volume", "spacing"},
                 [ns EXCEPT !.volume = load_example_ct.volume,
                            !.spacing = load_example_ct.spacing],
                 "create-volume")
       \/ Raise(76, {}, "load_example_ct")

\* bx, by, bz = torch.tensor(volume.shape) * torch.tensor(spacing) / 2
\* (Faulty variant: the volume is resampled and rebound on the way.)
GetIsocenter_Rescale ==
    /\ At(77)
    /\ \/ Return(77, {"volume", "spacing"}, {"bx", "by", "bz", "volume"},
                 [ns EXCEPT !.bx = Isocenter(ns.volume, ns.spacing, 1),
                            !.by = Isocenter(ns.volume, ns.spacing, 2),
                            !.bz = Isocenter(ns.volume, ns.spacing, 3),
                            !.volume = [ns.volume EXCEPT !.shape = <<2, 2, 1>>]],
                 "")
       \/ Raise(77, {"volume", "spacing"}, "torch.tensor")

GetIsocenter ==
    /\ At(77)
    /\ \/ Return(77, {"volume", "spacing"}, {"bx", "by", "bz"},
                 [ns EXCEPT !.bx = Isocenter(ns.volume, ns.spacing, 1),
                            !.by = Isocenter(ns.volume, ns.spacing, 2),
                            !.bz = Isocenter(ns.volume, ns.spacing, 3)],
                 "")
       \/ Raise(77, {"volume", "spacing"}, "torch.tensor")

\* focal_len = 1020.0
SetFocalLen ==
    /\ At(78)
    /\ Return(78, {}, {"focal_len"}, [ns EXCEPT !.focal_len = Float(focal_len)], "")

\* device = torch.device("cuda" if torch.cuda.is_available() else "cpu")
SetDeviceAgain ==
    /\ At(81)
    /\ Return(81, {}, {"device"}, [ns EXCEPT !.device = torch_device(cuda)], "")

\* drr = DRR(volume, spacing, sdr=focal_len / 2, height=200, delx=2.0).to(device)
MakeDRR ==
    /\ At(82)
    /\ LET rd == {"volume", "spacing", "focal_len", "device"} IN
       \/ Return(82, rd, {"drr"},
                 [ns EXCEPT !.drr = DRR(ns.volume, ns.spacing, ns.focal_len.v \div 2,
                                        height, delx, ns.device)],
                 "create-renderer")
       \/ Raise(82, rd, "DRR")

\* ct = drr_to_mesh(drr, "surface_nets", threshold=1150, verbose=False)
\* An unsupported method raises; a supported one returns the mesh or raises.
\* (Faulty variant: the mesh is placed in the frame of the translation.)
ExtractMesh_InPoseFrame ==
    /\ At(93)
    /\ \/ /\ params.backend \in SupportedBackends
          /\ Return(93, {"drr"}, {"ct"},
                    [ns EXCEPT !.ct =
                        [drr_to_mesh(ns.drr, params.backend, threshold)
                            EXCEPT !.origin = <<params.dx, 0, 0>>]],
                    "extract-mesh")
       \/ Raise(93, {"drr"}, "drr_to_mesh")

ExtractMesh ==
    /\ At(93)
    /\ \/ /\ params.backend \in SupportedBackends
          /\ Return(93, {"drr"}, {"ct"},
                    [ns EXCEPT !.ct = drr_to_mesh(ns.drr, params.backend, threshold)],
                    "extract-mesh")
       \/ Raise(93, {"drr"}, "drr_to_mesh")

\* rotations = torch.tensor([[torch.pi, 0.0, torch.pi / 2]], device=device)
MakeRotations ==
    /\ At(96)
    /\ \/ Return(96, {"device"}, {"rotations"},
                 [ns EXCEPT !.rotations = torch_tensor("pi,0,pi/2", ns.device)], "")
       \/ Raise(96, {"device"}, "torch.tensor")

\* translations = torch.tensor([[bx - focal_len / 3, by, bz]], device=device)
\* (Faulty variant: device= left out, the tensor stays on the cpu.)
MakeTranslations_DefaultDevice ==
    /\ At(97)
    /\ LET rd == {"bx", "by", "bz", "focal_len", "device"} IN
       \/ Return(97, rd, {"translations"},
                 [ns EXCEPT !.translations =
                     torch_tensor(<<ns.bx.v - ns.focal_len.v \div 3 + params.dx,
                                    ns.by.v, ns.bz.v>>, Device("cpu"))], "")
       \/ Raise(97, rd, "torch.tensor")

MakeTranslations ==
    /\ At(97)
    /\ LET rd == {"bx", "by", "bz", "focal_len", "device"} IN
       \/ Return(97, rd, {"translations"},
                 [ns EXCEPT !.translations =
                     torch_tensor(<<ns.bx.v - ns.focal_len.v \div 3 + params.dx,
                                    ns.by.v, ns.bz.v>>, ns.device)], "")
       \/ Raise(97, rd, "torch.tensor")

\* pose = convert(rotations, translations, parameterization="euler_angles", convention="ZYX")
ConvertPose ==
    /\ At(98)
    /\ LET rd == {"rotations", "translations"} IN
       \/ Return(98, rd, {"pose"},
                 [ns EXCEPT !.pose = convert(ns.rotations, ns.translations,
                                             "euler_angles", "ZYX")],
                 "compute-pose")
       \/ Raise(98, rd, "convert")

\* camera, detector, texture, principal_ray = img_to_mesh(drr, pose)
ImgToMesh ==
    /\ At(99)
    /\ LET rd == {"drr", "pose"}
           m == img_to_mesh(ns.drr, ns.pose) IN
       \/ Return(99, rd, {"camera", "detector", "texture", "principal_ray"},
                 [ns EXCEPT !.camera = m.camera, !.detector = m.detector,
                            !.texture = m.texture,
                            !.principal_ray = m.principal_ray],
                 "render-projection")
       \/ Raise(99, rd, "img_to_mesh")

\* plotter = pyvista.Plotter()
\* (Faulty variant: a plotter already in the kernel is kept.)
MakePlotter_Reuse ==
    /\ At(102)
    /\ \/ Return(102, {}, {"plotter"},
                 [ns EXCEPT !.plotter = IF ns.plotter = None THEN Plotter
                                        ELSE ns.plotter], "")
       \/ Raise(102, {}, "Plotter")

MakePlotter ==
    /\ At(102)
    /\ \/ Return(102, {}, {"plotter"}, [ns EXCEPT !.plotter = Plotter], "")
       \/ Raise(102, {}, "Plotter")

\* plotter.add_mesh(ct)
AddMeshCt ==
    /\ At(103)
    /\ LET rd == {"plotter", "ct"} IN
       \/ Return(103, rd, {},
                 [ns EXCEPT !.plotter = add_mesh(ns.plotter, ns.ct, None)], "")
       \/ Raise(103, rd, "add_mesh")

\* plotter.add_mesh(camera, show_edges=True, line_width=1.5)
AddMeshCamera ==
    /\ At(104)
    /\ LET rd == {"plotter", "camera"} IN
       \/ Return(104, rd, {},
                 [ns EXCEPT !.plotter = add_mesh(ns.plotter, ns.camera, None)], "")
       \/ Raise(104, rd, "add_mesh")

\* plotter.add_mesh(principal_ray, color="lime", line_width=3)
AddMeshRay ==
    /\ At(105)
    /\ LET rd == {"plotter", "principal_ray"} IN
       \/ Return(105, rd, {},
                 [ns EXCEPT !.plotter = add_mesh(ns.plotter, ns.principal_ray, None)], "")
       \/ Raise(105, rd, "add_mesh")

\* plotter.add_mesh(detector, texture=texture)
\* (Faulty variant: the textured mesh is the camera.)
AddMeshDetector_TextureOnCamera ==
    /\ At(106)
    /\ LET rd == {"plotter", "detector", "texture"} IN
       \/ Return(106, rd, {},
                 [ns EXCEPT !.plotter = add_mesh(ns.plotter, ns.camera, ns.texture)], "")
       \/ Raise(106, rd, "add_mesh")

AddMeshDetector ==
    /\ At(106)
    /\ LET rd == {"plotter", "detector", "texture"} IN
       \/ Return(106, rd, {},
                 [ns EXCEPT !.plotter = add_mesh(ns.plotter, ns.detector, ns.texture)], "")
       \/ Raise(106, rd, "add_mesh")

\* plotter.add_axes()
AddAxes ==
    /\ At(109)
    /\ \/ Return(109, {"plotter"}, {},
                 [ns EXCEPT !.plotter = add_axes(ns.plotter)], "")
       \/ Raise(109, {"plotter"}, "add_axes")

\* plotter.add_bounding_box()
AddBoundingBox ==
    /\ At(110)
    /\ \/ Return(110, {"plotter"}, {},
                 [ns EXCEPT !.plotter = add_bounding_box(ns.plotter)],
                 "build-scene")
       \/ Raise(110, {"plotter"}, "add_bounding_box")

\* plotter.export_html("render.html"): the file is written whole, or the
\* write fails before or after the file was opened.
ExportHtml ==
    /\ At(114)
    /\ \/ /\ Complete(114, {"plotter"}, {}, ns, "export")
          /\ disk' = export_html(ns.plotter)
          /\ created' = created + 1
       \/ Raise(114, {"plotter"}, "export_html")
       \/ /\ Abort(114, {"plotter"}, "export_html")
          /\ disk' = PartialFile
          /\ created' = created + 1

\* from IPython.display import IFrame; IFrame("render.html", height=500, width=749)
ShowIFrame ==
    /\ At(147)
    /\ Return(147, {}, {}, ns, "")

Next ==
    \/ RunAll
    \/ ImportPyvista
    \/ ImportDiffDRR
    \/ SetDevice
    \/ LoadVolume
    \/ GetIsocenter
    \/ SetFocalLen
    \/ SetDeviceAgain
    \/ MakeDRR
    \/ ExtractMesh
    \/ MakeRotations
    \/ MakeTranslations
    \/ ConvertPose
    \/ ImgToMesh
    \/ MakePlotter
    \/ AddMeshCt
    \/ AddMeshCamera
    \/ AddMeshRay
    \/ AddMeshDetector
    \/ AddAxes
    \/ AddBoundingBox
    \/ ExportHtml
    \/ ShowIFrame

\* The statements of one run, without the decision to run again.
Statement ==
    \/ ImportPyvista
    \/ ImportDiffDRR
    \/ SetDevice
    \/ LoadVolume
    \/ GetIsocenter
    \/ SetFocalLen
    \/ SetDeviceAgain
    \/ MakeDRR
    \/ ExtractMesh
    \/ MakeRotations
    \/ MakeTranslations
    \/ ConvertPose
    \/ ImgToMesh
    \/ MakePlotter
    \/ AddMeshCt
    \/ AddMeshCamera
    \/ AddMeshRay
    \/ AddMeshDetector
    \/ AddAxes
    \/ AddBoundingBox
    \/ ExportHtml
    \/ ShowIFrame

Spec == Init /\ [][Next]_vars

\* The interpreter executes the next statement of a running cell: every
\* call returns or raises.
FairSpec == Init /\ [][Next]_vars /\ WF_vars(Statement)

(***************************************************************************)
(* Properties.                                                             *)
(***************************************************************************)

Failed == status = "failed"

Exported == status = "done"

Meshes(p) == {p.actors[i].mesh : i \in 1..Len(p.actors)}

\* The actors of a scene: each mesh with the texture attached to it.
Scene(p) == {<<p.actors[i].mesh, p.actors[i].texture>> : i \in 1..Len(p.actors)}

\* The four scene elements of this run, the projection on the detector only.
FourElements ==
    {<<ns.ct, None>>, <<ns.camera, None>>, <<ns.principal_ray, None>>,
     <<ns.detector, ns.texture>>}

\* C1: render.html is created in a run only after the isosurface mesh, the
\* camera, the principal ray and the detector were added to the plotter and
\* every statement before the export completed; a run that failed before the
\* export created no file.
C1_ExportAfterAllAdded ==
    /\ created > 0 =>
          /\ \A l \in LineSet : l < 114 => Completed(l)
          /\ {ns.ct, ns.camera, ns.principal_ray, ns.detector}
                \subseteq Meshes(ns.plotter)
          /\ (surfaced # None => surfaced.line = 114)
    /\ (Failed /\ pc < 114) => created = 0

C1_Witness == Exported /\ created = 1 /\ disk.complete

\* C2: with a backend name that is not supported, the run fails at the call
\* of drr_to_mesh (when it gets there): img_to_mesh and the plotter
\* statements are executed neither before nor after, and nothing is exported.
C2_UnsupportedBackendFailsFast ==
    (status # "idle" /\ params.backend \notin SupportedBackends) =>
        /\ \A l \in LineSet : l > 93 => execCount[l] = 0
        /\ "render-projection" \notin {steps[i] : i \in 1..Len(steps)}
        /\ created = 0
        /\ ~Exported
        /\ execCount[93] > 0 =>
              (Failed /\ pc = 93 /\ surfaced = Error(93, "drr_to_mesh"))

C2_Witness ==
    Failed /\ pc = 93 /\ params.backend \notin SupportedBackends

\* This run and the completed run before it differ in the translation only.
OnlyTranslationDiffers ==
    /\ Exported
    /\ prev # None
    /\ prev.params.backend = params.backend
    /\ prev.params.dx # params.dx

\* C3: of two completed runs that differ only in the translation, the
\* detector plane lies elsewhere and the isosurface mesh is the same; the
\* statement that makes the isosurface mesh reads the renderer only.

C3_TranslationMovesDetectorOnly ==
    /\ OnlyTranslationDiffers =>
          /\ ns.ct = prev.ct
          /\ ns.detector.center # prev.detector.center
    /\ \A n \in Names \ {"drr"} : 93 \notin readers[n]

C3_Witness == OnlyTranslationDiffers /\ 93 \in readers["drr"]

\* This run and the completed run before it have the same literals.
SameInputs == Exported /\ prev # None /\ prev.params = params

\* C4: of two completed runs with the same literals, the second writes a
\* file of the same size as the first.

C4_SameInputsSameSize ==
    SameInputs =>
        /\ created = 1
        /\ disk.complete
        /\ ByteSize(disk) = prev.size

C4_Witness == SameInputs /\ run = 2

\* The order of steps the orchestration is said to follow.
StepOrder ==
    <<"create-volume", "create-renderer", "extract-mesh", "compute-pose",
      "render-projection", "build-scene", "export">>

IsPrefix(s, t) == Len(s) <= Len(t) /\ \A i \in 1..Len(s) : s[i] = t[i]

\* C5: the steps a run completed are an initial part of create-volume,
\* create-renderer, extract-mesh, compute-pose, render-projection,
\* build-scene, export; no statement is executed twice; a run that reached
\* its end completed all seven.

C5_StrictStepOrder ==
    /\ IsPrefix(steps, StepOrder)
    /\ \A l \in LineSet : execCount[l] <= 1
    /\ Exported => steps = StepOrder

C5_Witness == Exported /\ steps = StepOrder /\ execCount[114] = 1

\* C6: a call that raises ends the run at its statement: the caller receives
\* the very exception the call raised, the statement was executed once, no
\* later statement was executed and none can be.
C6_FailurePropagatesUnmodified ==
    /\ Failed =>
          /\ raised # None
          /\ surfaced = raised
          /\ surfaced.line = pc
          /\ execCount[pc] = 1
          /\ \A l \in LineSet : l > pc => execCount[l] = 0
          /\ ~ENABLED Statement
    /\ raised # None => Failed

C6_Witness == Failed /\ surfaced = Error(82, "DRR")

\* C7: once the renderer is built and moved to the device, the name device
\* is not bound again and keeps the renderer's device, and the rotation and
\* translation tensors are on that device.
C7_OneDevice ==
    Completed(82) =>
        /\ assigns["device"] = 2
        /\ ns.device = ns.drr.device
        /\ Completed(96) => ns.rotations.device = ns.drr.device
        /\ Completed(97) => ns.translations.device = ns.drr.device
        /\ Completed(98) => ns.pose.device = ns.drr.device

C7_Witness == Completed(98) /\ ns.drr.device = Device("cuda")

\* C8, as stated: at the end of a run every object of the script was bound
\* exactly once and read by exactly one statement.
C8_WriteOnceReadOnce ==
    Exported =>
        \A n \in ObjectNames : assigns[n] = 1 /\ Cardinality(readers[n]) = 1

\* The objects one statement reads, and the number of bindings of each name.
ReadOnce == {"ct", "pose", "camera", "detector", "texture", "principal_ray"}

Bindings(n) == IF n = "device" THEN 2 ELSE 1

\* C8, amended: every object but device is bound once in a run, device
\* twice (lines 73 and 81); ct, pose, camera, detector, texture and
\* principal_ray are read by one statement each, volume, spacing, device,
\* drr and plotter by several; the volume stays as it was loaded.

C8_WriteOnceButDevice ==
    /\ \A n \in ObjectNames : assigns[n] <= Bindings(n)
    /\ \A n \in ReadOnce : Cardinality(readers[n]) <= 1
    /\ Exported =>
          /\ \A n \in ObjectNames : assigns[n] = Bindings(n)
          /\ \A n \in ReadOnce : Cardinality(readers[n]) = 1
          /\ \A n \in ObjectNames \ ReadOnce : Cardinality(readers[n]) > 1
    /\ Completed(76) => ns.volume = load_example_ct.volume

C8_Witness == Exported /\ assigns["device"] = 2 /\ readers["drr"] = {93, 99}

Final == status \in {"done", "failed"}

Unfinished == {l \in LineSet : execCount[l] > 0 /\ ~Completed(l)}

EndsOneWay ==
    /\ Exported =>
          /\ surfaced = None
          /\ \A l \in LineSet : execCount[l] = 1
          /\ Unfinished = {}
          /\ created = 1
          /\ disk.complete
    /\ Failed =>
          /\ surfaced # None
          /\ Unfinished = {surfaced.line}

\* C10: every run ends, either completed (every statement executed once,
\* nothing raised, the file written) or failed at exactly one statement; an
\* ended run stays as it ended.
C10_EveryRunEnds ==
    /\ (status = "running") ~> Final
    /\ []EndsOneWay
    /\ [][Final => (status' = status \/ run' # run)]_vars

C10_Witness == Failed /\ pc = 114 /\ created = 1 /\ ~disk.complete

====
